---- MODULE Spec2Model ----
(***************************************************************************)
(* State machine of the App component of client/src/App.tsx: the search    *)
(* form (mode, radius, ZIP code, geolocation), the single hotspot request  *)
(* it issues per submit, and the conditional rendering of the results.     *)
(*                                                                         *)
(* Strings the code inspects character by character (the ZIP field, the    *)
(* radius field) are sequences of one-character strings; messages are      *)
(* TLA+ strings.  Every event handler runs to completion and React         *)
(* re-renders before the next event, so each handler is one action and     *)
(* the closure a handler reads is the current state.  The part of          *)
(* fetchHotspots after its await runs later, with the values its closure   *)
(* captured at submit; they are kept in the in-flight request.             *)
(***************************************************************************)
EXTENDS Integers, Sequences, FiniteSets, TLC

VARIABLES mode, distanceKm, postalCode, coords, loading, geolocating,
          error, status, randomHotspot, topHotspots, hasFetched,
          inflight, geoPending, geoSupported, lastSearch

\* mode .. hasFetched are the useState fields of App.  inflight holds the
\* requests whose response has not been handled, geoPending counts the
\* getCurrentPosition calls whose callback has not run, geoSupported is
\* whether navigator.geolocation exists.  lastSearch is a history variable:
\* the successful search completed since the last submit or mode switch
\* ("none", "random", "topEmpty", "topSome").
vars == <<mode, distanceKm, postalCode, coords, loading, geolocating,
          error, status, randomHotspot, topHotspots, hasFetched,
          inflight, geoPending, geoSupported, lastSearch>>

(***************************************************************************)
(* Bounds of the model.                                                    *)
(***************************************************************************)
\* most hotspots the server puts in one payload of the model
MaxTop == 2
\* cap on the requests outstanding at once (never reached while the
\* submit control is disabled during loading)
MaxInflight == 2
\* cap on the position requests outstanding at once
MaxGeo == 2

(***************************************************************************)
(* JavaScript values.                                                      *)
(***************************************************************************)
\* null of the string-typed fields error and status
Null == "null"
\* null of the object-typed fields coords and randomHotspot
NullObj == [null |-> TRUE]
\* the value of a property the payload does not have
Undefined == [undefined |-> TRUE]
\* the result of Number() on a non-numeric string; a number n is [num |-> n]
NaN == [nan |-> TRUE]

Truthy(v) == v # NullObj /\ v # Undefined

Modes == {"random", "top"}

(***************************************************************************)
(* Messages.                                                               *)
(***************************************************************************)
ValidationMsg == "Enter a valid 5-digit ZIP code or allow location access."
FetchFallbackMsg == "Unable to fetch hotspots."
UnexpectedMsg == "Unexpected error."
GeoUnsupportedMsg == "Geolocation is not supported in this browser."
GeoRequestingStatus == "Requesting your location..."
GeoLockedStatus == "Location locked in. Ready when you are!"
GeoFallbackMsg == "Unable to access your location."

(***************************************************************************)
(* Strings as sequences of characters.                                     *)
(***************************************************************************)
Digits == {"0", "1", "2", "3", "4", "5", "6", "7", "8", "9"}
Whitespace == {" "}

DigitVal(c) ==
  CASE c = "0" -> 0 [] c = "1" -> 1 [] c = "2" -> 2 [] c = "3" -> 3
    [] c = "4" -> 4 [] c = "5" -> 5 [] c = "6" -> 6 [] c = "7" -> 7
    [] c = "8" -> 8 [] c = "9" -> 9

\* a ZIP handler that stores what was typed
StripNonDigits_Nothing(s) == s

\* value.replace(/\D/g, ''): drop every character that is not a digit
RECURSIVE StripNonDigits(_)
StripNonDigits(s) ==
  IF s = <<>> THEN <<>>
  ELSE IF Head(s) \in Digits THEN <<Head(s)>> \o StripNonDigits(Tail(s))
       ELSE StripNonDigits(Tail(s))

RECURSIVE TrimLeft(_)
TrimLeft(s) ==
  IF s # <<>> /\ Head(s) \in Whitespace THEN TrimLeft(Tail(s)) ELSE s

RECURSIVE TrimRight(_)
TrimRight(s) ==
  IF s # <<>> /\ s[Len(s)] \in Whitespace
  THEN TrimRight(SubSeq(s, 1, Len(s) - 1)) ELSE s

\* String.prototype.trim
Trim(s) == TrimRight(TrimLeft(s))

RECURSIVE DigitsValue(_)
DigitsValue(s) ==
  IF s = <<>> THEN 0
  ELSE 10 * DigitsValue(SubSeq(s, 1, Len(s) - 1)) + DigitVal(s[Len(s)])

AllDigits(s) == \A i \in 1..Len(s) : s[i] \in Digits

\* Number(string) on the strings of the model: the empty (or blank) string
\* is 0, an optionally signed run of digits is its value, anything else NaN
Number(s) ==
  LET t == Trim(s) IN
  IF t = <<>> THEN [num |-> 0]
  ELSE IF AllDigits(t) THEN [num |-> DigitsValue(t)]
  ELSE IF Head(t) = "-" /\ Len(t) > 1 /\ AllDigits(Tail(t))
       THEN [num |-> 0 - DigitsValue(Tail(t))]
  ELSE NaN

NumberIsNaN(v) == v = NaN

(***************************************************************************)
(* What the environment can supply.                                        *)
(***************************************************************************)
\* maxLength of the ZIP field
MaxLength == 5
\* min and max of the radius field, initial radius
MinDistance == 1
MaxDistance == 200
InitialDistanceKm == 25

\* characters typed or pasted into the ZIP field
ZipAlphabet == {"1", "a"}

RECURSIVE StringsUpTo(_, _)
StringsUpTo(alphabet, n) ==
  IF n = 0 THEN {<<>>}
  ELSE LET shorter == StringsUpTo(alphabet, n - 1) IN
       shorter \cup {<<c>> \o s : c \in alphabet,
                                 s \in {t \in shorter : Len(t) = n - 1}}

\* event.target.value of the ZIP field: at most maxLength characters
ZipEntries == StringsUpTo(ZipAlphabet, MaxLength)

\* event.target.value of the radius field
RadiusEntries ==
  { <<>>, <<"0">>, <<"1">>, <<"2", "0", "0">>, <<"2", "0", "1">>, <<"x">> }

\* a hotspot of the payload, known by its locId
Hotspot(k) == [locId |-> k]
Hotspots == {Hotspot(k) : k \in 1..MaxTop}
\* the ranked lists of the payload: the first n hotspots, n = 0..MaxTop
TopLists == {[i \in 1..n |-> Hotspot(i)] : n \in 0..MaxTop}

ServerMsg == "Invalid ZIP code"

\* a JSON object body: props names the properties it has, and the fields
\* of the properties it lacks are placeholders that Get never reads
Body(props, m, h, l) ==
  [props |-> props, message |-> m, hotspot |-> h, hotspots |-> l]
EmptyObject == Body({}, "", Undefined, <<>>)

Has(payload, prop) == prop \in payload.props

\* the JSON bodies of the model
Payloads ==
  {EmptyObject, Body({"message"}, ServerMsg, Undefined, <<>>)}
    \cup {Body({"hotspot"}, "", h, <<>>) : h \in Hotspots}
    \cup {Body({"hotspots"}, "", Undefined, l) : l \in TopLists}

\* values a rejected promise carries
NetworkError == [isError |-> TRUE, message |-> "Failed to fetch"]
ParseError == [isError |-> TRUE, message |-> "Unexpected end of JSON input"]
NullBodyError ==
  [isError |-> TRUE, message |-> "Cannot read properties of null"]
NonError == [isError |-> FALSE]

\* how a request can settle: fetch or response.json() rejects, or a
\* response with a JSON body (an object or null) arrives
Outcomes ==
  {[kind |-> "reject", thrown |-> t] : t \in {NetworkError, ParseError, NonError}}
    \cup {[kind |-> "response", ok |-> k, isNull |-> FALSE, payload |-> p] :
             k \in BOOLEAN, p \in Payloads}
    \cup {[kind |-> "response", ok |-> k, isNull |-> TRUE, payload |-> EmptyObject] :
             k \in BOOLEAN}

\* readings of the position API, in units of 0.00001 degree
Positions ==
  { [latitude |-> 4001234, longitude |-> -10527056],
    [latitude |-> 4001236, longitude |-> -10527054] }

GeoErrorMsgs == {"User denied Geolocation"}

(***************************************************************************)
(* Initial state: the useState initial values; the [mode] effect of the    *)
(* mount writes the values the fields already have.                        *)
(***************************************************************************)
Init ==
  /\ mode = "random"
  /\ distanceKm = InitialDistanceKm
  /\ postalCode = <<>>
  /\ coords = NullObj
  /\ loading = FALSE
  /\ geolocating = FALSE
  /\ error = Null
  /\ status = Null
  /\ randomHotspot = NullObj
  /\ topHotspots = <<>>
  /\ hasFetched = FALSE
  /\ inflight = <<>>
  /\ geoPending = 0
  /\ geoSupported \in BOOLEAN
  /\ lastSearch = "none"

(***************************************************************************)
(* Request construction.                                                   *)
(***************************************************************************)
\* the query string, as the parameters it carries: names lists them, and
\* the fields of the parameters it lacks are placeholders
Query(names, d, lat, lng, zip) ==
  [names |-> names, distanceKm |-> d, lat |-> lat, lng |-> lng,
   postalCode |-> zip]

buildQuery ==
  IF Truthy(coords)
  THEN Query({"distanceKm", "lat", "lng"}, distanceKm, coords.lat,
             coords.lng, <<>>)
  ELSE IF Trim(postalCode) # <<>>
  THEN Query({"distanceKm", "postalCode"}, distanceKm, 0, 0,
             Trim(postalCode))
  ELSE Query({"distanceKm"}, distanceKm, 0, 0, <<>>)

\* both modes sent to the random endpoint
Endpoint_AlwaysRandom(m) == "hotspots/random"

Endpoint(m) == IF m = "random" THEN "hotspots/random" ELSE "hotspots/top"

\* a validation that only rejects an empty ZIP code
ValidationFails_EmptyOnly == ~Truthy(coords) /\ Len(Trim(postalCode)) = 0

\* the local validation of fetchHotspots: TRUE when the submit is blocked
ValidationFails == ~Truthy(coords) /\ Len(Trim(postalCode)) # 5

\* the request fetch() sends, with the mode its continuation closes over
NewRequest == [mode |-> mode, endpoint |-> Endpoint(mode), query |-> buildQuery]

(***************************************************************************)
(* Rendering.                                                              *)
(***************************************************************************)
\* a submit control that is never disabled
SubmitDisabled_Never == FALSE

\* a submit control that is also disabled while locating
SubmitDisabled_WhileLocating == loading \/ geolocating

SubmitDisabled == loading

\* a location control that is never disabled
LocateDisabled_Never == FALSE

LocateDisabled == geolocating

RandomSectionShown == ~loading /\ mode = "random" /\ Truthy(randomHotspot)
TopSectionShown == ~loading /\ mode = "top"

\* what the top-mode section shows below its heading
TopSectionBody ==
  IF ~hasFetched THEN "RunTheSearch"
  ELSE IF Len(topHotspots) = 0 THEN "NoHotspotsMetThreshold"
  ELSE "ResultsGrid"

(***************************************************************************)
(* Form inputs.                                                            *)
(***************************************************************************)
\* the value the radius onChange stores for an entry
RadiusValue(entry) ==
  LET value == Number(entry) IN
  IF NumberIsNaN(value) THEN 1 ELSE value.num

\* onChange of the radius field
SetDistance(entry) ==
  /\ distanceKm' = RadiusValue(entry)
  /\ UNCHANGED <<mode, postalCode, coords, loading, geolocating, error,
                 status, randomHotspot, topHotspots, hasFetched, inflight,
                 geoPending, geoSupported, lastSearch>>

\* a ZIP handler that keeps the coordinates whatever is typed
CoordsAfterZip_Kept(value) == coords

\* the coordinates the ZIP onChange leaves: cleared by a non-empty value
CoordsAfterZip(value) == IF value # <<>> THEN NullObj ELSE coords

\* onChange of the ZIP field
SetZip(entry) ==
  LET value == StripNonDigits(entry) IN
  /\ postalCode' = value
  /\ coords' = CoordsAfterZip(value)
  /\ UNCHANGED <<mode, distanceKm, loading, geolocating, error, status,
                 randomHotspot, topHotspots, hasFetched, inflight,
                 geoPending, geoSupported, lastSearch>>

\* an effect that keeps the ranked list
ModeEffect_KeepsTop ==
  /\ randomHotspot' = NullObj
  /\ topHotspots' = topHotspots
  /\ status' = Null
  /\ error' = Null
  /\ hasFetched' = FALSE

\* an effect that forgets to reset hasFetched
ModeEffect_KeepsFetched ==
  /\ randomHotspot' = NullObj
  /\ topHotspots' = <<>>
  /\ status' = Null
  /\ error' = Null
  /\ hasFetched' = hasFetched

\* the effect that runs after a render in which mode has changed
ModeEffect ==
  /\ randomHotspot' = NullObj
  /\ topHotspots' = <<>>
  /\ status' = Null
  /\ error' = Null
  /\ hasFetched' = FALSE

\* onClick of a mode button: setMode(m); when m is the current mode the
\* state is the same, nothing re-renders and the effect does not run
SetMode(m) ==
  IF m = mode
  THEN UNCHANGED vars
  ELSE /\ mode' = m
       /\ ModeEffect
       /\ lastSearch' = "none"
       /\ UNCHANGED <<distanceKm, postalCode, coords, loading, geolocating,
                      inflight, geoPending, geoSupported>>

(***************************************************************************)
(* The hotspot search.                                                     *)
(***************************************************************************)
\* a submit that keeps the status line
ClearOutcome_KeepsStatus ==
  /\ status' = status
  /\ randomHotspot' = NullObj
  /\ topHotspots' = <<>>
  /\ hasFetched' = FALSE

\* a submit that keeps the previous random pick
ClearOutcome_KeepsPick ==
  /\ status' = Null
  /\ randomHotspot' = randomHotspot
  /\ topHotspots' = <<>>
  /\ hasFetched' = FALSE

\* the resets at the top of fetchHotspots (error is set by the caller's
\* branch: null, then the validation message when the submit is blocked)
ClearOutcome ==
  /\ status' = Null
  /\ randomHotspot' = NullObj
  /\ topHotspots' = <<>>
  /\ hasFetched' = FALSE

\* onClick of the submit button, up to the await of fetch()
Submit ==
  /\ ~SubmitDisabled
  /\ ClearOutcome
  /\ lastSearch' = "none"
  /\ IF ValidationFails
     THEN /\ error' = ValidationMsg
          /\ UNCHANGED <<loading, inflight>>
     ELSE /\ Len(inflight) < MaxInflight
          /\ error' = Null
          /\ loading' = TRUE
          /\ inflight' = Append(inflight, NewRequest)
  /\ UNCHANGED <<mode, distanceKm, postalCode, coords, geolocating,
                 geoPending, geoSupported>>

\* the try block after the awaits: what it throws, if it throws
TryThrows(o) ==
  IF o.kind = "reject" THEN TRUE
  ELSE IF o.isNull THEN TRUE
  ELSE ~o.ok

Thrown(o) ==
  IF o.kind = "reject" THEN o.thrown
  ELSE IF o.isNull THEN NullBodyError
  ELSE [isError |-> TRUE,
        message |-> IF Has(o.payload, "message") THEN o.payload.message
                    ELSE FetchFallbackMsg]

\* the message the catch block shows
CatchMessage(err) == IF err.isError THEN err.message ELSE UnexpectedMsg

\* the value a successful random-mode response stores
StoredHotspot(payload) ==
  IF Has(payload, "hotspot") THEN payload.hotspot ELSE Undefined

\* the value a successful top-mode response stores
StoredHotspots(payload) ==
  IF Has(payload, "hotspots") THEN payload.hotspots ELSE <<>>

\* a continuation that reads the mode of the latest render
ContinuationMode_Current(req) == mode

\* the mode the continuation of fetchHotspots reads: the one of its closure
ContinuationMode(req) == req.mode

\* a continuation that drops the response of a superseded mode
FetchedAfterSuccess_IfCurrent(req) == req.mode = mode

\* setHasFetched(true): unconditional once the response was stored
FetchedAfterSuccess(req) == TRUE

\* a handler that resets loading after the try block instead of in finally
LoadingAfterSettle_NoFinally(threw) == IF threw THEN loading ELSE FALSE

\* loading after the finally block, whether or not the try block threw
LoadingAfterSettle(threw) == FALSE

RemoveAt(q, i) == SubSeq(q, 1, i - 1) \o SubSeq(q, i + 1, Len(q))

\* the rest of fetchHotspots, run when request i settles with outcome o
Complete(i, o) ==
  /\ i \in 1..Len(inflight)
  /\ inflight' = RemoveAt(inflight, i)
  /\ IF TryThrows(o)
     THEN /\ error' = CatchMessage(Thrown(o))
          /\ UNCHANGED <<randomHotspot, topHotspots, hasFetched, lastSearch>>
     ELSE /\ IF ContinuationMode(inflight[i]) = "random"
             THEN /\ randomHotspot' = StoredHotspot(o.payload)
                  /\ lastSearch' = "random"
                  /\ UNCHANGED topHotspots
             ELSE /\ topHotspots' = StoredHotspots(o.payload)
                  /\ lastSearch' = IF StoredHotspots(o.payload) = <<>>
                                   THEN "topEmpty" ELSE "topSome"
                  /\ UNCHANGED randomHotspot
          /\ hasFetched' = FetchedAfterSuccess(inflight[i])
          /\ UNCHANGED error
  /\ loading' = LoadingAfterSettle(TryThrows(o))
  /\ UNCHANGED <<mode, distanceKm, postalCode, coords, geolocating, status,
                 geoPending, geoSupported>>

(***************************************************************************)
(* Geolocation.                                                            *)
(***************************************************************************)
\* Number(x.toFixed(4)) of a reading in units of 0.00001 degree: the
\* nearest multiple of 0.0001, halves away from zero, in units of 0.0001
ToFixed4(x) == IF x >= 0 THEN (x + 5) \div 10 ELSE 0 - ((5 - x) \div 10)

\* onClick of the location button
RequestCurrentLocation ==
  /\ ~LocateDisabled
  /\ IF ~geoSupported
     THEN /\ error' = GeoUnsupportedMsg
          /\ UNCHANGED <<geolocating, status, geoPending>>
     ELSE /\ geoPending < MaxGeo
          /\ geolocating' = TRUE
          /\ status' = GeoRequestingStatus
          /\ error' = Null
          /\ geoPending' = geoPending + 1
  /\ UNCHANGED <<mode, distanceKm, postalCode, coords, loading,
                 randomHotspot, topHotspots, hasFetched, inflight,
                 geoSupported, lastSearch>>

\* the success callback of getCurrentPosition
GeoSuccess(position) ==
  /\ geoPending > 0
  /\ geoPending' = geoPending - 1
  /\ coords' = [lat |-> ToFixed4(position.latitude),
                lng |-> ToFixed4(position.longitude)]
  /\ postalCode' = <<>>
  /\ geolocating' = FALSE
  /\ status' = GeoLockedStatus
  /\ UNCHANGED <<mode, distanceKm, loading, error, randomHotspot,
                 topHotspots, hasFetched, inflight, geoSupported, lastSearch>>

\* an error callback that always shows the fallback text
GeoErrorText_FallbackOnly(message) == GeoFallbackMsg

\* geoError.message ?? fallback: the browser's message unless it is null
GeoErrorText(message) == IF message = Null THEN GeoFallbackMsg ELSE message

\* the error callback of getCurrentPosition
GeoFailure(message) ==
  /\ geoPending > 0
  /\ geoPending' = geoPending - 1
  /\ geolocating' = FALSE
  /\ status' = Null
  /\ error' = GeoErrorText(message)
  /\ UNCHANGED <<mode, distanceKm, postalCode, coords, loading,
                 randomHotspot, topHotspots, hasFetched, inflight,
                 geoSupported, lastSearch>>

(***************************************************************************)
(* The specification.                                                      *)
(***************************************************************************)
Settle == \E i \in 1..Len(inflight), o \in Outcomes : Complete(i, o)

Next ==
  \/ \E entry \in RadiusEntries : SetDistance(entry)
  \/ \E entry \in ZipEntries : SetZip(entry)
  \/ \E m \in Modes : SetMode(m)
  \/ Submit
  \/ Settle
  \/ RequestCurrentLocation
  \/ \E position \in Positions : GeoSuccess(position)
  \/ \E message \in GeoErrorMsgs : GeoFailure(message)

Spec == Init /\ [][Next]_vars

\* a request that was sent settles
LiveSpec == Spec /\ WF_vars(Settle)

TypeOK ==
  /\ mode \in Modes
  /\ distanceKm \in Int
  /\ loading \in BOOLEAN /\ geolocating \in BOOLEAN /\ hasFetched \in BOOLEAN
  /\ Len(inflight) <= MaxInflight
  /\ geoPending \in 0..MaxGeo

(***************************************************************************)
(* Properties.                                                             *)
(***************************************************************************)

\* C1: a submit in a state where coords is null and postalCode does not
\* have exactly 5 characters sends no request, sets error to the
\* validation message and leaves loading false.
C1_BlockedSubmit ==
  [][(Submit /\ coords = NullObj /\ Len(postalCode) # 5)
       => (inflight' = inflight /\ error' = ValidationMsg
           /\ loading' = FALSE)]_vars

\* a submit with a short ZIP code and no coordinates was blocked
C1_Witness ==
  /\ error = ValidationMsg
  /\ coords = NullObj /\ Len(postalCode) \in 1..4
  /\ ~loading /\ inflight = <<>>

\* C2: whenever mode changes, from any state, also one with a request in
\* flight, the next state has randomHotspot null, topHotspots empty,
\* status null, error null and hasFetched false.
C2_ModeSwitchClears ==
  [][mode' # mode
       => (randomHotspot' = NullObj /\ topHotspots' = <<>>
           /\ status' = Null /\ error' = Null /\ hasFetched' = FALSE)]_vars

\* the mode was switched while a request was in flight
C2_Witness ==
  /\ Len(inflight) = 1 /\ inflight[1].mode # mode
  /\ randomHotspot = NullObj /\ topHotspots = <<>> /\ ~hasFetched
  /\ error = Null /\ status = Null

\* C3: a geolocation success clears postalCode, a ZIP edit to a non-empty
\* value clears coords, and in every reachable state coords is null or
\* postalCode is empty.
LocationExclusive == ~(Truthy(coords) /\ postalCode # <<>>)

C3_LocationExclusive ==
  /\ []LocationExclusive
  /\ [][/\ (coords' # coords /\ Truthy(coords')) => postalCode' = <<>>
        /\ (postalCode' # postalCode /\ postalCode' # <<>>)
             => coords' = NullObj]_vars

\* a ZIP code was typed after the location had been locked in
C3_Witness ==
  /\ status = GeoLockedStatus
  /\ coords = NullObj /\ postalCode # <<>>

\* C4: the radius is clamped: in every reachable state distanceKm lies in
\* 1..200, and so does the distanceKm of every request that was sent.
C4_RadiusClamped ==
  /\ distanceKm \in MinDistance..MaxDistance
  /\ \A i \in 1..Len(inflight) :
       inflight[i].query.distanceKm \in MinDistance..MaxDistance

\* C5: in top mode with loading false, the "no hotspots met the
\* threshold" message is shown only when a top-mode search has completed
\* successfully with zero hotspots, and the "run the search" message is
\* shown whenever no top-mode search has completed since top mode was
\* entered or since the last submit.
C5_EmptyStates ==
  TopSectionShown
    => /\ TopSectionBody = "NoHotspotsMetThreshold" => lastSearch = "topEmpty"
       /\ lastSearch \notin {"topEmpty", "topSome"}
            => TopSectionBody = "RunTheSearch"

\* a request carries distanceKm and exactly the parameters of names
Carries(query, names) == query.names = {"distanceKm"} \cup names

\* C6: every request that is sent carries distanceKm and exactly one
\* location input: lat and lng when coords is non-null at submit,
\* otherwise a postalCode of exactly 5 digits; its path is hotspots/random
\* when mode at submit is random and hotspots/top when it is top.
C6_RequestShape ==
  [][Len(inflight') > Len(inflight)
       => LET req == inflight'[Len(inflight')] IN
          /\ req.query.distanceKm = distanceKm
          /\ IF coords # NullObj
             THEN /\ Carries(req.query, {"lat", "lng"})
                  /\ req.query.lat = coords.lat
                  /\ req.query.lng = coords.lng
             ELSE /\ Carries(req.query, {"postalCode"})
                  /\ req.query.postalCode = postalCode
                  /\ Len(req.query.postalCode) = 5
                  /\ \A k \in 1..5 : req.query.postalCode[k] \in Digits
          /\ mode = "random" => req.endpoint = "hotspots/random"
          /\ mode = "top" => req.endpoint = "hotspots/top"]_vars

\* a top-mode request with a ZIP code is in flight
C6_Witness ==
  /\ Len(inflight) = 1
  /\ inflight[1].endpoint = "hotspots/top"
  /\ "postalCode" \in inflight[1].query.names

\* the outcomes that end in the catch block
Failed(o) == o.kind = "reject" \/ o.isNull \/ ~o.ok

\* C7: when a request completes with a non-success status or throws,
\* error becomes the server's message if the payload has one, otherwise
\* the generic fallback or the exception's message, and right after it
\* randomHotspot is null, topHotspots is empty, hasFetched is false and
\* loading is false.
C7_FailureStoresNothing ==
  [][\A i \in 1..Len(inflight), o \in Outcomes :
       (Complete(i, o) /\ Failed(o))
         => /\ error' = IF o.kind = "reject"
                         THEN (IF o.thrown.isError THEN o.thrown.message
                               ELSE "Unexpected error.")
                         ELSE IF o.isNull
                         THEN "Cannot read properties of null"
                         ELSE IF "message" \in o.payload.props
                         THEN o.payload.message
                         ELSE "Unable to fetch hotspots."
            /\ randomHotspot' = NullObj /\ topHotspots' = <<>>
            /\ hasFetched' = FALSE /\ loading' = FALSE]_vars

\* a request failed with the server's message
C7_Witness ==
  /\ error = ServerMsg
  /\ ~loading /\ inflight = <<>>
  /\ randomHotspot = NullObj /\ topHotspots = <<>> /\ ~hasFetched

\* C8: when a request completes successfully, a random-mode submit stores
\* payload.hotspot in randomHotspot and leaves topHotspots untouched, a
\* top-mode submit stores payload.hotspots (the empty list if absent) in
\* topHotspots and leaves randomHotspot untouched, and in both cases
\* hasFetched becomes true and error is unchanged.
C8_SuccessStores ==
  [][\A i \in 1..Len(inflight), o \in Outcomes :
       (Complete(i, o) /\ ~Failed(o))
         => /\ inflight[i].endpoint = "hotspots/random"
                 => /\ randomHotspot' = IF "hotspot" \in o.payload.props
                                         THEN o.payload.hotspot ELSE Undefined
                    /\ topHotspots' = topHotspots
            /\ inflight[i].endpoint = "hotspots/top"
                 => /\ topHotspots' = IF "hotspots" \in o.payload.props
                                       THEN o.payload.hotspots ELSE <<>>
                    /\ randomHotspot' = randomHotspot
            /\ hasFetched' = TRUE
            /\ error' = error]_vars

\* a top-mode response was stored after the mode had been switched to
\* random
C8_Witness ==
  /\ mode = "random" /\ lastSearch = "topSome"
  /\ hasFetched /\ Len(topHotspots) > 0 /\ randomHotspot = NullObj

\* C9: at most one request is in flight at any time: loading is true
\* exactly while a request is outstanding, and while it is true the submit
\* control is disabled and no result section is rendered.
C9_SingleRequest ==
  /\ Len(inflight) <= 1
  /\ loading <=> inflight # <<>>
  /\ loading => SubmitDisabled /\ ~RandomSectionShown /\ ~TopSectionShown
  /\ loading => ~ENABLED Submit

\* one request is in flight
C9_Witness == loading /\ Len(inflight) = 1 /\ SubmitDisabled

\* C10: when the request of a submit completes, whatever happens in
\* between, loading becomes false and the submit control is enabled again.
C10_ReturnsToIdle == loading ~> (~loading /\ ~SubmitDisabled)

\* a request completed after the mode was switched while it was in flight
C10_Witness ==
  /\ ~loading /\ ~SubmitDisabled /\ inflight = <<>>
  /\ mode = "top" /\ lastSearch = "random"

\* C11: only digit characters are retained in the ZIP field and its
\* length never exceeds 5: in every reachable state postalCode is a string
\* of 0 to 5 digit characters.
C11_ZipDigitsOnly ==
  /\ Len(postalCode) \in 0..5
  /\ \A k \in 1..Len(postalCode) : postalCode[k] \in Digits

\* a full-length ZIP code is stored
C11_Witness ==
  /\ Len(postalCode) = 5
  /\ \A k \in 1..5 : postalCode[k] \in Digits
  /\ mode = "top" /\ error = Null

\* C12: when the position request fails or is denied, geolocating returns
\* to false, status becomes null, error becomes the browser's message, and
\* coords and postalCode are unchanged.
C12_GeoFailure ==
  [][\A message \in GeoErrorMsgs :
       GeoFailure(message)
         => /\ geolocating' = FALSE
            /\ status' = Null
            /\ error' = message
            /\ coords' = coords
            /\ postalCode' = postalCode]_vars

\* the position request was denied while a ZIP code was in the field
C12_Witness ==
  /\ error \in GeoErrorMsgs
  /\ ~geolocating /\ geoPending = 0 /\ status = Null
  /\ postalCode # <<>>

\* C13: the location action disables itself while in flight: geolocating
\* is true exactly while a position request is outstanding, the location
\* control is disabled while it is true, and at most one position request
\* is outstanding at any time.
C13_SingleGeoRequest ==
  /\ geoPending <= 1
  /\ geolocating <=> geoPending > 0
  /\ geolocating => LocateDisabled
  /\ geolocating => ~ENABLED RequestCurrentLocation

\* one position request is outstanding
C13_Witness ==
  /\ geolocating /\ geoPending = 1 /\ LocateDisabled
  /\ status = GeoRequestingStatus

\* C14: a stale response still overwrites state: when a request settles
\* successfully after the mode was switched, its payload is stored in the
\* result field of the mode current at submit and hasFetched becomes true.
C14_StaleResponseApplied ==
  [][\A i \in 1..Len(inflight), o \in Outcomes :
       (Complete(i, o) /\ ~Failed(o) /\ inflight[i].mode # mode)
         => /\ hasFetched' = TRUE
            /\ inflight[i].mode = "random"
                 => randomHotspot' = IF "hotspot" \in o.payload.props
                                      THEN o.payload.hotspot ELSE Undefined
            /\ inflight[i].mode = "top"
                 => topHotspots' = IF "hotspots" \in o.payload.props
                                    THEN o.payload.hotspots ELSE <<>>]_vars

\* the results cleared by the switch to top mode are repopulated by the
\* random-mode response, with no submit in top mode
C14_Witness ==
  /\ mode = "top" /\ lastSearch = "random"
  /\ Truthy(randomHotspot) /\ hasFetched /\ topHotspots = <<>>

\* C15: the fetch and the position request are not mutually exclusive:
\* submit stays enabled while geolocating, the location control stays
\* enabled while loading, and a geolocation success leaves the requests
\* already sent as they were.
C15_FetchAndGeoIndependent ==
  /\ [](/\ (geolocating /\ ~loading) => (~SubmitDisabled /\ ENABLED Submit)
        /\ (loading /\ ~geolocating)
             => (~LocateDisabled /\ ENABLED RequestCurrentLocation))
  /\ [][(\E position \in Positions : GeoSuccess(position))
          => inflight' = inflight]_vars

\* a request sent with a ZIP code is still in flight after the location
\* was locked in, while a further position request is outstanding
C15_Witness ==
  /\ loading /\ geolocating
  /\ Len(inflight) = 1 /\ "postalCode" \in inflight[1].query.names
  /\ Truthy(coords)

\* C16: every submit, also one that fails the local validation, first
\* discards the previous outcome: right after it randomHotspot is null,
\* topHotspots is empty, status is null, hasFetched is false, and error is
\* null when a request was sent and the validation message when not.
C16_SubmitDiscards ==
  [][Submit
       => /\ randomHotspot' = NullObj /\ topHotspots' = <<>>
          /\ status' = Null /\ hasFetched' = FALSE
          /\ IF Len(inflight') > Len(inflight)
             THEN error' = Null
             ELSE error' = ValidationMsg /\ inflight' = inflight]_vars

\* a blocked submit wiped the "requesting your location" status while the
\* position request was still outstanding
C16_Witness ==
  /\ geolocating /\ status = Null
  /\ error = ValidationMsg
  /\ randomHotspot = NullObj /\ topHotspots = <<>> /\ ~hasFetched

\* C17: in every reachable state randomHotspot and topHotspots are never
\* both populated, and whenever either is populated hasFetched is true.
C17_ResultsExclusive ==
  /\ ~(Truthy(randomHotspot) /\ Len(topHotspots) > 0)
  /\ (Truthy(randomHotspot) \/ Len(topHotspots) > 0) => hasFetched

\* a ranked list is shown in top mode
C17_Witness ==
  /\ mode = "top" /\ lastSearch = "topSome"
  /\ Len(topHotspots) > 0 /\ randomHotspot = NullObj /\ hasFetched

====
